---- MODULE Spec2Model ----
\* A model of OutputChannel (src/src/OutputChannel.js): the per-channel encoder
\* of MIDI channel-voice and channel-mode messages and of the RPN/NRPN
\* select / set / deselect sequences. Every public method is one action; the
\* messages it hands to this.output.send() are appended to the log `sent`.
EXTENDS Integers, Sequences, FiniteSets, TLC

\* ------------------------------------------------------------------------
\* Bounds of the model
\* ------------------------------------------------------------------------
\* Numbers are exact rationals q / Den (q an integer). Den is even, so that
\* one half is a number of the model, and with HalfDen a power of two every
\* modelled value is also exact in IEEE-754 double arithmetic.
HalfDen == 32
Den == 2 * HalfDen
\* The clock WebMidi.time runs over 0..MaxNow milliseconds.
MaxNow == 2

\* ------------------------------------------------------------------------
\* JavaScript values
\* ------------------------------------------------------------------------
\* A value is a record: t its type, q its numeric content in units of 1/Den
\* (numbers, and the number a "+<ms>" string parses to), s its text (strings),
\* e its elements (arrays).
Undefined == [t |-> "undefined", q |-> 0, s |-> "", e |-> <<>>]
NaN == [t |-> "NaN", q |-> 0, s |-> "", e |-> <<>>]
Frac(k) == [t |-> "number", q |-> k, s |-> "", e |-> <<>>]
Num(n) == Frac(n * Den)
Str(name) == [t |-> "string", q |-> 0, s |-> name, e |-> <<>>]
\* the string "+<ms>" (a relative time)
Plus(ms) == [t |-> "string", q |-> ms * Den, s |-> "+", e |-> <<>>]
Arr(elems) == [t |-> "array", q |-> 0, s |-> "", e |-> elems]

IsNumber(v) == v.t = "number"
IsInt(v) == v.t = "number" /\ v.q % Den = 0
\* the integer an integral number stands for
IntOf(v) == v.q \div Den

\* ------------------------------------------------------------------------
\* State
\* ------------------------------------------------------------------------
\* number: this.number, the channel (1..16).  now: WebMidi.time, in ms.
\* sent: the messages handed to this.output.send(), oldest first.
\* call: the last call made: its operation, its arguments, the error it threw
\* ("none" when it returned), the length of the log and the clock when it
\* started, and the number of calls the behaviour may still make.
VARIABLES number, now, sent, call
vars == <<number, now, sent, call>>

\* ------------------------------------------------------------------------
\* JavaScript built-ins, on the values above
\* ------------------------------------------------------------------------
\* Number(v): a number is itself, "+<ms>" is the number it spells, anything
\* else modelled here (undefined, a name, NaN) is NaN.
ToNumber(v) ==
  IF v.t = "number" THEN v
  ELSE IF v.t = "string" /\ v.s = "+" THEN Frac(v.q)
  ELSE NaN

parseFloat(v) == ToNumber(v)

\* parseInt truncates toward zero.
parseInt(v) ==
  LET x == ToNumber(v) IN
  IF x.t # "number" THEN NaN
  ELSE IF x.q >= 0 THEN Frac((x.q \div Den) * Den)
  ELSE Frac(-(((-x.q) \div Den) * Den))

isNaN(v) == ToNumber(v).t # "number"

MathFloor(v) ==
  LET x == ToNumber(v) IN
  IF x.t # "number" THEN NaN ELSE Frac((x.q \div Den) * Den)

\* Math.round rounds half up: floor(x + 1/2).
MathRound(v) ==
  LET x == ToNumber(v) IN
  IF x.t # "number" THEN NaN ELSE Frac(((2 * x.q + Den) \div (2 * Den)) * Den)

\* v >= lo && v <= hi, false when v is NaN
Between(v, lo, hi) ==
  LET x == ToNumber(v) IN x.t = "number" /\ x.q >= lo * Den /\ x.q <= hi * Den

\* v < lo || v > hi, false when v is NaN
Outside(v, lo, hi) ==
  LET x == ToNumber(v) IN x.t = "number" /\ (x.q < lo * Den \/ x.q > hi * Den)

Truthy(v) ==
  \/ v.t = "number" /\ v.q # 0
  \/ v.t = "string" /\ v.s # ""
  \/ v.t = "array"
  \/ v.t = "boolean" /\ v.q # 0

True == [t |-> "boolean", q |-> 1, s |-> "", e |-> <<>>]
False == [t |-> "boolean", q |-> 0, s |-> "", e |-> <<>>]

\* options.<key>: undefined when the object has no such key, and also when
\* `options` is a number (a property read on a number gives undefined).
Get(options, key) ==
  IF key \in DOMAIN options THEN options[key] ELSE Undefined

\* ------------------------------------------------------------------------
\* Collaborators (WebMidi.js and the Output are outside this file)
\* ------------------------------------------------------------------------
\* WebMidi.MIDI_CHANNEL_VOICE_MESSAGES: the command nibble of each family.
MIDI_CHANNEL_VOICE_MESSAGES ==
  [noteoff |-> 8, noteon |-> 9, keyaftertouch |-> 10, controlchange |-> 11,
   channelmode |-> 11, programchange |-> 12, channelaftertouch |-> 13,
   pitchbend |-> 14]

\* WebMidi.MIDI_CONTROL_CHANGE_MESSAGES, as listed in sendControlChange's doc.
MIDI_CONTROL_CHANGE_MESSAGES ==
  [bankselectcoarse |-> 0, modulationwheelcoarse |-> 1,
   breathcontrollercoarse |-> 2, footcontrollercoarse |-> 4,
   portamentotimecoarse |-> 5, dataentrycoarse |-> 6, volumecoarse |-> 7,
   balancecoarse |-> 8, pancoarse |-> 10, expressioncoarse |-> 11,
   effectcontrol1coarse |-> 12, effectcontrol2coarse |-> 13,
   generalpurposeslider1 |-> 16, generalpurposeslider2 |-> 17,
   generalpurposeslider3 |-> 18, generalpurposeslider4 |-> 19,
   bankselectfine |-> 32, modulationwheelfine |-> 33,
   breathcontrollerfine |-> 34, footcontrollerfine |-> 36,
   portamentotimefine |-> 37, dataentryfine |-> 38, volumefine |-> 39,
   balancefine |-> 40, panfine |-> 42, expressionfine |-> 43,
   effectcontrol1fine |-> 44, effectcontrol2fine |-> 45, holdpedal |-> 64,
   portamento |-> 65, sustenutopedal |-> 66, softpedal |-> 67,
   legatopedal |-> 68, hold2pedal |-> 69, soundvariation |-> 70,
   resonance |-> 71, soundreleasetime |-> 72, soundattacktime |-> 73,
   brightness |-> 74, soundcontrol6 |-> 75, soundcontrol7 |-> 76,
   soundcontrol8 |-> 77, soundcontrol9 |-> 78, soundcontrol10 |-> 79,
   generalpurposebutton1 |-> 80, generalpurposebutton2 |-> 81,
   generalpurposebutton3 |-> 82, generalpurposebutton4 |-> 83,
   reverblevel |-> 91, tremololevel |-> 92, choruslevel |-> 93,
   celestelevel |-> 94, phaserlevel |-> 95, databuttonincrement |-> 96,
   databuttondecrement |-> 97, nonregisteredparametercoarse |-> 98,
   nonregisteredparameterfine |-> 99, registeredparametercoarse |-> 100,
   registeredparameterfine |-> 101]

\* WebMidi.MIDI_REGISTERED_PARAMETER, as listed in setRegisteredParameter's doc.
MIDI_REGISTERED_PARAMETER ==
  [pitchbendrange |-> <<0, 0>>, channelfinetuning |-> <<0, 1>>,
   channelcoarsetuning |-> <<0, 2>>, tuningprogram |-> <<0, 3>>,
   tuningbank |-> <<0, 4>>, modulationrange |-> <<0, 5>>,
   azimuthangle |-> <<61, 0>>, elevationangle |-> <<61, 1>>,
   gain |-> <<61, 2>>, distanceratio |-> <<61, 3>>,
   maximumdistance |-> <<61, 4>>, maximumdistancegain |-> <<61, 5>>,
   referencedistanceratio |-> <<61, 6>>, panspreadangle |-> <<61, 7>>,
   rollangle |-> <<61, 8>>]

\* WebMidi.MIDI_CHANNEL_MODE_MESSAGES, as listed in sendChannelMode's doc.
MIDI_CHANNEL_MODE_MESSAGES ==
  [allsoundoff |-> 120, resetallcontrollers |-> 121, localcontrol |-> 122,
   allnotesoff |-> 123, omnimodeoff |-> 124, omnimodeon |-> 125,
   monomodeon |-> 126, polymodeon |-> 127]

\* table[name]: undefined for a name the table does not hold
Lookup(table, name) ==
  IF name \in DOMAIN table THEN Num(table[name]) ELSE Undefined

LookupPair(table, name) ==
  IF name \in DOMAIN table
  THEN Arr(<<Num(table[name][1]), Num(table[name][2])>>)
  ELSE Undefined

\* WebMidi.convertToTimestamp(time), the time resolver: "+<ms>" is relative to
\* the clock, a number is absolute, and an omitted, unreadable or past time
\* means as soon as possible, which is timestamp 0. In units of 1/Den ms.
Resolve(time, clock) ==
  LET parsed == parseFloat(time) IN
  IF parsed.t # "number" THEN 0
  ELSE IF time.t = "string" THEN clock * Den + parsed.q
  ELSE IF parsed.q < clock * Den THEN 0
  ELSE parsed.q

convertToTimestamp(time) == Resolve(time, now)

\* ------------------------------------------------------------------------
\* Results of a method body
\* ------------------------------------------------------------------------
\* out: the messages handed to the output, in order; err: the error thrown
\* ("none" when the body ran to its end); resolved: how many times the body
\* called WebMidi.convertToTimestamp.
Ok(out) == [out |-> out, err |-> "none", resolved |-> 0]
Throw(kind) == [out |-> <<>>, err |-> kind, resolved |-> 0]
\* r1; r2 -- r2 does not run when r1 throws, and what r1 sent stays sent.
Then(r1, r2) ==
  LET a == r1 IN
  IF a.err # "none" THEN a
  ELSE LET b == r2 IN [out |-> a.out \o b.out, err |-> b.err,
                       resolved |-> a.resolved + b.resolved]

\* (command << 4) + (this.number - 1)
\* (a variant that forgets to make the channel zero-based)
StatusByte_OneBased(cmd) == MIDI_CHANNEL_VOICE_MESSAGES[cmd] * 16 + number
StatusByte(cmd) == MIDI_CHANNEL_VOICE_MESSAGES[cmd] * 16 + (number - 1)

\* send(status, data, timestamp): hands the message to this.output.send().
\* The output is modelled as recording whatever it is handed. Every call of
\* send in this file computes its third argument with
\* WebMidi.convertToTimestamp(options.time): one call of the resolver per
\* message.
send(status, data, timestamp) ==
  [out |-> <<[status |-> status, data |-> data, timestamp |-> timestamp]>>,
   err |-> "none", resolved |-> 1]

\* ------------------------------------------------------------------------
\* Control change and the parameter protocol
\* ------------------------------------------------------------------------
\* sendControlChange(controller, value, options = {}). `options` is whatever
\* the caller passes third: an options object, or the channel number.
\* (variants: the range check off by one; the two data bytes swapped)
sendControlChange_Upto120(controller, value, options) ==
  LET c == IF controller.t = "string"
           THEN Lookup(MIDI_CONTROL_CHANGE_MESSAGES, controller.s)
           ELSE MathFloor(controller)
  IN IF controller.t = "string" /\ c.t = "undefined" THEN Throw("TypeError")
     ELSE IF controller.t # "string" /\ ~Between(c, 0, 120) THEN Throw("RangeError")
     ELSE send(StatusByte("controlchange"), <<c, value>>,
               convertToTimestamp(Get(options, "time")))

sendControlChange_Swapped(controller, value, options) ==
  LET c == IF controller.t = "string"
           THEN Lookup(MIDI_CONTROL_CHANGE_MESSAGES, controller.s)
           ELSE MathFloor(controller)
  IN IF controller.t = "string" /\ c.t = "undefined" THEN Throw("TypeError")
     ELSE IF controller.t # "string" /\ ~Between(c, 0, 119) THEN Throw("RangeError")
     ELSE send(StatusByte("controlchange"), <<value, c>>,
               convertToTimestamp(Get(options, "time")))

sendControlChange(controller, value, options) ==
  LET c == IF controller.t = "string"
           THEN Lookup(MIDI_CONTROL_CHANGE_MESSAGES, controller.s)
           ELSE MathFloor(controller)
  IN IF controller.t = "string" /\ c.t = "undefined" THEN Throw("TypeError")
     ELSE IF controller.t # "string" /\ ~Between(c, 0, 119) THEN Throw("RangeError")
     ELSE send(StatusByte("controlchange"), <<c, value>>,
               convertToTimestamp(Get(options, "time")))

\* an options object holding only a time: {time: time}
TimeOption(time) == [time |-> time]

\* parameter[i], undefined past the end of the array (and of a non-array)
At(arr, i) == IF i <= Len(arr.e) THEN arr.e[i] ELSE Undefined

\* _selectNonRegisteredParameter(parameter, time). The parameter is written
\* in place (parameter[0] = Math.floor(parameter[0])): in this module's
\* strict mode the write throws a TypeError when the parameter is no object
\* (a name, a number, undefined).
\* (variant: the select goes to the registered-parameter controllers)
_selectNonRegisteredParameter_Registered(parameter, time) ==
  LET p0 == MathFloor(At(parameter, 1))
      p1 == MathFloor(At(parameter, 2))
  IN IF parameter.t # "array" THEN Throw("TypeError")
     ELSE IF ~Between(p0, 0, 127) THEN Throw("RangeError")
     ELSE IF ~Between(p1, 0, 127) THEN Throw("RangeError")
     ELSE Then(sendControlChange(Num(101), p0, TimeOption(time)),
               sendControlChange(Num(100), p1, TimeOption(time)))

_selectNonRegisteredParameter(parameter, time) ==
  LET p0 == MathFloor(At(parameter, 1))
      p1 == MathFloor(At(parameter, 2))
  IN IF parameter.t # "array" THEN Throw("TypeError")
     ELSE IF ~Between(p0, 0, 127) THEN Throw("RangeError")
     ELSE IF ~Between(p1, 0, 127) THEN Throw("RangeError")
     ELSE Then(sendControlChange(Num(99), p0, TimeOption(time)),
               sendControlChange(Num(98), p1, TimeOption(time)))

\* _deselectRegisteredParameter(time)
\* (variant: the two deselect messages in the other order)
_deselectRegisteredParameter_Swapped(time) ==
  Then(sendControlChange(Num(100), Num(127), TimeOption(time)),
       sendControlChange(Num(101), Num(127), TimeOption(time)))

_deselectRegisteredParameter(time) ==
  Then(sendControlChange(Num(101), Num(127), TimeOption(time)),
       sendControlChange(Num(100), Num(127), TimeOption(time)))

\* _selectRegisteredParameter(parameter, time)
_selectRegisteredParameter(parameter, time) ==
  LET p0 == MathFloor(At(parameter, 1))
      p1 == MathFloor(At(parameter, 2))
  IN IF ~Between(p0, 0, 127) THEN Throw("RangeError")
     ELSE IF ~Between(p1, 0, 127) THEN Throw("RangeError")
     ELSE Then(sendControlChange(Num(101), p0, TimeOption(time)),
               sendControlChange(Num(100), p1, TimeOption(time)))

\* [].concat(data): an array stays as it is, anything else becomes [data]
Concat(data) == IF data.t = "array" THEN data ELSE Arr(<<data>>)

\* _setCurrentRegisteredParameter(data, time)
\* (variant: the second data value is never sent)
_setCurrentRegisteredParameter_MsbOnly(data, time) ==
  LET d == Concat(data)
      msb == parseInt(At(d, 1))
  IN IF ~(~isNaN(msb) /\ Between(msb, 0, 127)) THEN Throw("RangeError")
     ELSE sendControlChange(Num(6), msb, TimeOption(time))

_setCurrentRegisteredParameter(data, time) ==
  LET d == Concat(data)
      msb == parseInt(At(d, 1))
      lsb == parseInt(At(d, 2))
  IN IF ~(~isNaN(msb) /\ Between(msb, 0, 127)) THEN Throw("RangeError")
     ELSE Then(sendControlChange(Num(6), msb, TimeOption(time)),
               IF Len(d.e) < 2 THEN Ok(<<>>)
               ELSE IF ~isNaN(lsb) /\ Between(lsb, 0, 127)
                    THEN sendControlChange(Num(38), lsb, TimeOption(time))
                    ELSE Throw("RangeError"))

\* The registered parameter a name or an array stands for; undefined for a
\* name MIDI_REGISTERED_PARAMETER does not hold.
RegisteredParameter(parameter) ==
  IF parameter.t = "array" THEN parameter
  ELSE LookupPair(MIDI_REGISTERED_PARAMETER, parameter.s)

\* decrementRegisteredParameter(parameter, options = {}). The select helper is
\* called with (parameter, this.number, options.time): it reads its second
\* argument as the time. sendControlChange is called with (0x61, 0,
\* this.number, {time}): it reads its third argument as the options.
decrementRegisteredParameter(parameter, options) ==
  LET p == RegisteredParameter(parameter) IN
  IF parameter.t # "array" /\ p.t = "undefined" THEN Throw("TypeError")
  ELSE Then(_selectRegisteredParameter(p, Num(number)),
       Then(sendControlChange(Num(97), Num(0), Num(number)),
            _deselectRegisteredParameter(Get(options, "time"))))

\* incrementRegisteredParameter(parameter, options = {})
\* (variant: the data-decrement controller is sent)
incrementRegisteredParameter_Decrements(parameter, options) ==
  LET p == RegisteredParameter(parameter) IN
  IF parameter.t # "array" /\ p.t = "undefined" THEN Throw("Error")
  ELSE Then(_selectRegisteredParameter(p, Get(options, "time")),
       Then(sendControlChange(Num(97), Num(0), TimeOption(Get(options, "time"))),
            _deselectRegisteredParameter(Get(options, "time"))))

incrementRegisteredParameter(parameter, options) ==
  LET p == RegisteredParameter(parameter) IN
  IF parameter.t # "array" /\ p.t = "undefined" THEN Throw("Error")
  ELSE Then(_selectRegisteredParameter(p, Get(options, "time")),
       Then(sendControlChange(Num(96), Num(0), TimeOption(Get(options, "time"))),
            _deselectRegisteredParameter(Get(options, "time"))))

\* setNonRegisteredParameter(parameter, data, options = {}). Both helpers are
\* called with (x, this.number, options.time) and read this.number as the time.
setNonRegisteredParameter(parameter, data, options) ==
  Then(_selectNonRegisteredParameter(parameter, Num(number)),
  Then(_setCurrentRegisteredParameter(Concat(data), Num(number)),
       _deselectRegisteredParameter(Get(options, "time"))))

\* setRegisteredParameter(parameter, data, options = {}). As above, the select
\* and set helpers read this.number as the time. `options` is what the caller
\* passes third: an options object, or the channel number (setTuningBank).
setRegisteredParameter(parameter, data, options) ==
  LET p == RegisteredParameter(parameter) IN
  IF parameter.t # "array" /\ p.t = "undefined" THEN Throw("Error")
  ELSE Then(_selectRegisteredParameter(p, Num(number)),
       Then(_setCurrentRegisteredParameter(data, Num(number)),
            _deselectRegisteredParameter(Get(options, "time"))))

\* ------------------------------------------------------------------------
\* Notes
\* ------------------------------------------------------------------------
\* A note argument is an array of note specifications: a note number, or a
\* Note object that brings its own velocities (own = TRUE).
NoteNumber(n) == [number |-> n, own |-> FALSE, rawAttack |-> Num(64), rawRelease |-> Num(64)]
NoteObject(n, a, r) == [number |-> n, own |-> TRUE, rawAttack |-> Num(a), rawRelease |-> Num(r)]

\* The velocity a new Note takes from the options: the integer 0..127 it is
\* given, or the default 64.
DefaultVelocity(v) == IF Between(v, 0, 127) THEN MathRound(v) ELSE Num(64)

\* WebMidi.getValidNoteArray(note, o), the note resolver: one resolved note per
\* specification, in input order; a Note object keeps its own velocities, a
\* number takes them from o.
getValidNoteArray(note, o) ==
  [i \in 1..Len(note) |->
     IF note[i].own
     THEN [number |-> Num(note[i].number), rawAttack |-> note[i].rawAttack,
           rawRelease |-> note[i].rawRelease]
     ELSE [number |-> Num(note[i].number),
           rawAttack |-> DefaultVelocity(Get(o, "rawAttack")),
           rawRelease |-> DefaultVelocity(Get(o, "rawRelease"))]]

\* options.key = v
Put(options, key, v) ==
  [k \in DOMAIN options \cup {key} |-> IF k = key THEN v ELSE options[k]]

\* v * 127
Times127(v) == Frac(ToNumber(v).q * 127)

\* `options` is undefined (the argument was omitted)
IsOmitted(options) == "t" \in DOMAIN options

\* one send per resolved note: notes.forEach(n => this.send(...))
RECURSIVE ForEach(_, _, _, _, _)
ForEach(notes, i, cmd, field, timestamp) ==
  IF i > Len(notes) THEN Ok(<<>>)
  ELSE Then(send(StatusByte(cmd), <<notes[i].number, notes[i][field]>>, timestamp),
            ForEach(notes, i + 1, cmd, field, timestamp))

\* sendNoteOff: the options object as the compatibility block leaves it
NoteOffOptions(options) ==
  LET o1 == IF Truthy(Get(options, "rawVelocity"))
            THEN Put(options, "rawRelease", Get(options, "velocity"))
            ELSE options
  IN IF Truthy(Get(o1, "velocity"))
     THEN Put(o1, "release", Get(o1, "velocity"))
     ELSE o1

\* sendNoteOff(note, options): no default for options, so reading
\* options.rawVelocity of an omitted options throws a TypeError.
sendNoteOff(note, options) ==
  IF IsOmitted(options) THEN Throw("TypeError")
  ELSE
    LET o == NoteOffOptions(options)
        rawRelease == Get(o, "rawRelease")
        release == Get(o, "release")
        nVelocity ==
          IF Truthy(rawRelease)
          THEN IF ~isNaN(rawRelease) /\ Between(rawRelease, 0, 127)
               THEN rawRelease ELSE Num(64)
          ELSE IF ~isNaN(release) /\ Between(release, 0, 1)
               THEN Times127(release) ELSE Num(64)
    IN ForEach(getValidNoteArray(note, [rawRelease |-> nVelocity]), 1,
               "noteoff", "rawRelease", convertToTimestamp(Get(o, "time")))

\* stopNote(note, options)
stopNote(note, options) == sendNoteOff(note, options)

\* sendNoteOn: the options object as the compatibility block leaves it
\* (variant: the deprecated velocity option is cleared once it is copied)
NoteOnOptions_ClearsVelocity(options) ==
  LET o1 == IF Truthy(Get(options, "rawVelocity"))
            THEN Put(Put(options, "rawAttack", Get(options, "velocity")),
                     "rawRelease", Get(options, "release"))
            ELSE options
  IN IF Truthy(Get(o1, "velocity"))
     THEN Put(Put(o1, "attack", Get(o1, "velocity")), "velocity", Undefined)
     ELSE o1

NoteOnOptions(options) ==
  LET o1 == IF Truthy(Get(options, "rawVelocity"))
            THEN Put(Put(options, "rawAttack", Get(options, "velocity")),
                     "rawRelease", Get(options, "release"))
            ELSE options
  IN IF Truthy(Get(o1, "velocity"))
     THEN Put(o1, "attack", Get(o1, "velocity"))
     ELSE o1

\* sendNoteOn(note, options = {}). With options.rawAttack set, the velocity
\* is read from options.attack.
\* (variant: the release velocity of each note is sent)
sendNoteOn_ReleaseVelocity(note, options) ==
  LET o == NoteOnOptions(options)
      attack == Get(o, "attack")
      nVelocity ==
        IF Truthy(Get(o, "rawAttack"))
        THEN IF ~isNaN(attack) /\ Between(attack, 0, 127)
             THEN attack ELSE Num(64)
        ELSE IF ~isNaN(attack) /\ Between(attack, 0, 1)
             THEN Times127(attack) ELSE Num(64)
  IN ForEach(getValidNoteArray(note, [rawAttack |-> nVelocity]), 1,
             "noteon", "rawRelease", convertToTimestamp(Get(o, "time")))

sendNoteOn(note, options) ==
  LET o == NoteOnOptions(options)
      attack == Get(o, "attack")
      nVelocity ==
        IF Truthy(Get(o, "rawAttack"))
        THEN IF ~isNaN(attack) /\ Between(attack, 0, 127)
             THEN attack ELSE Num(64)
        ELSE IF ~isNaN(attack) /\ Between(attack, 0, 1)
             THEN Times127(attack) ELSE Num(64)
  IN ForEach(getValidNoteArray(note, [rawAttack |-> nVelocity]), 1,
             "noteon", "rawAttack", convertToTimestamp(Get(o, "time")))

\* playNote(note, options = {}): the same options object goes to sendNoteOn
\* and then, as sendNoteOn left it, to sendNoteOff.
playNote(note, options) ==
  LET o == IF IsOmitted(options) THEN [time |-> Undefined] ELSE options IN
  Then(sendNoteOn(note, o),
       IF ~isNaN(Get(o, "duration"))
       THEN sendNoteOff(note, NoteOnOptions(o))
       ELSE Ok(<<>>))

\* ------------------------------------------------------------------------
\* Aftertouch, channel mode, tuning, pitch bend, program change
\* ------------------------------------------------------------------------
\* round half up of the rational n / d (d > 0)
RoundDiv(n, d) == (2 * n + d) \div (2 * d)

\* A pressure after parseFloat, the NaN default and the raw division, as the
\* rational n / d: pressure / 127 when raw, pressure otherwise.
Pressure(pressure, raw) ==
  LET p == IF isNaN(parseFloat(pressure)) THEN Frac(HalfDen) ELSE parseFloat(pressure)
  IN IF Truthy(raw) THEN [n |-> p.q, d |-> Den * 127] ELSE [n |-> p.q, d |-> Den]

\* one send per resolved note, each with the same pressure byte
RECURSIVE ForEachPressure(_, _, _, _)
ForEachPressure(notes, i, byte, time) ==
  IF i > Len(notes) THEN Ok(<<>>)
  ELSE Then(send(StatusByte("keyaftertouch"), <<notes[i].number, byte>>,
                 convertToTimestamp(time)),
            ForEachPressure(notes, i + 1, byte, time))

\* setKeyAftertouch(note, pressure, options = {})
setKeyAftertouch(note, pressure, options) ==
  LET p == Pressure(pressure, Get(options, "useRawValue")) IN
  IF p.n < 0 \/ p.n > p.d THEN Throw("RangeError")
  ELSE ForEachPressure(getValidNoteArray(note, [time |-> Undefined]), 1,
                       Num(RoundDiv(p.n * 127, p.d)), Get(options, "time"))

\* setChannelAftertouch(pressure, options = {})
setChannelAftertouch(pressure, options) ==
  LET p == Pressure(pressure, Get(options, "rawValue")) IN
  IF p.n < 0 \/ p.n > p.d THEN Throw("RangeError")
  ELSE send(StatusByte("channelaftertouch"), <<Num(RoundDiv(p.n * 127, p.d))>>,
            convertToTimestamp(Get(options, "time")))

\* sendChannelMode(command, value, options = {}): a command that is no number
\* in 120..127 throws a TypeError, whether it was a name or a number.
\* (variant: the value is dropped and 0 is always sent)
sendChannelMode_NoValue(command, value, options) ==
  LET c == IF command.t = "string"
           THEN Lookup(MIDI_CHANNEL_MODE_MESSAGES, command.s)
           ELSE parseInt(command)
      v == IF Truthy(parseInt(value)) THEN parseInt(value) ELSE Num(0)
  IN IF isNaN(c) \/ ~Between(c, 120, 127) THEN Throw("TypeError")
     ELSE IF Outside(v, 0, 127) THEN Throw("RangeError")
     ELSE send(StatusByte("channelmode"), <<c, Num(0)>>,
               convertToTimestamp(Get(options, "time")))

sendChannelMode(command, value, options) ==
  LET c == IF command.t = "string"
           THEN Lookup(MIDI_CHANNEL_MODE_MESSAGES, command.s)
           ELSE parseInt(command)
      v == IF Truthy(parseInt(value)) THEN parseInt(value) ELSE Num(0)
  IN IF isNaN(c) \/ ~Between(c, 120, 127) THEN Throw("TypeError")
     ELSE IF Outside(v, 0, 127) THEN Throw("RangeError")
     ELSE send(StatusByte("channelmode"), <<c, v>>,
               convertToTimestamp(Get(options, "time")))

\* setOmniMode(state, options = {})
setOmniMode(state, options) ==
  IF state.t = "undefined" \/ Truthy(state)
  THEN sendChannelMode(Str("omnimodeon"), Num(0), options)
  ELSE sendChannelMode(Str("omnimodeoff"), Num(0), options)

\* setLocalControl(state, options = {})
setLocalControl(state, options) ==
  IF Truthy(state)
  THEN sendChannelMode(Str("localcontrol"), Num(127), options)
  ELSE sendChannelMode(Str("localcontrol"), Num(0), options)

\* turnNotesOff(options = {})
turnNotesOff(options) == sendChannelMode(Str("allnotesoff"), Num(0), options)

\* turnSoundOff(options = {})
turnSoundOff(options) == sendChannelMode(Str("allsoundoff"), Num(0), options)

\* resetAllControllers(options = {})
resetAllControllers(options) ==
  sendChannelMode(Str("resetallcontrollers"), Num(0), options)

\* setPolyphonicMode(mode, options = {})
setPolyphonicMode(mode, options) ==
  IF mode.t = "string" /\ mode.s = "mono"
  THEN sendChannelMode(Str("monomodeon"), Num(0), options)
  ELSE sendChannelMode(Str("polymodeon"), Num(0), options)

\* (nLevel >> 7) & 0x7F and nLevel & 0x7F
Msb(nLevel) == (nLevel \div 128) % 128
Lsb(nLevel) == nLevel % 128

\* setMasterTuning(value, options = {})
setMasterTuning(value, options) ==
  LET v == IF Truthy(parseFloat(value)) THEN parseFloat(value) ELSE Num(0)
      floor == MathFloor(v)
      coarse == Frac(floor.q + 64 * Den)
      fine == RoundDiv((v.q - floor.q + Den) * 16383, 2 * Den)
  IN IF v.q <= (-65) * Den \/ v.q >= 64 * Den THEN Throw("RangeError")
     ELSE Then(setRegisteredParameter(Str("channelcoarsetuning"), coarse,
                                      TimeOption(Get(options, "time"))),
               setRegisteredParameter(Str("channelfinetuning"),
                                      Arr(<<Num(Msb(fine)), Num(Lsb(fine))>>),
                                      TimeOption(Get(options, "time"))))

\* setModulationRange(semitones, cents, options = {})
setModulationRange(semitones, cents, options) ==
  setRegisteredParameter(Str("modulationrange"), Arr(<<semitones, cents>>),
                         TimeOption(Get(options, "time")))

\* The bend after parseFloat, the NaN default and the raw conversion, as the
\* rational n / d: value / 127 * 2 - 1 when raw, value otherwise.
Bend(value, raw) ==
  LET v == IF isNaN(parseFloat(value)) THEN Num(0) ELSE parseFloat(value)
  IN IF Truthy(raw) THEN [n |-> 2 * v.q - 127 * Den, d |-> 127 * Den]
     ELSE [n |-> v.q, d |-> Den]

\* setPitchBend(value, options = {})
\* (variant: the data bytes in (msb, lsb) order)
setPitchBend_MsbFirst(value, options) ==
  LET v == Bend(value, Get(options, "rawValue"))
      nLevel == RoundDiv((v.n + v.d) * 16383, 2 * v.d)
  IN IF v.n < -v.d \/ v.n > v.d THEN Throw("RangeError")
     ELSE send(StatusByte("pitchbend"), <<Num(Msb(nLevel)), Num(Lsb(nLevel))>>,
               convertToTimestamp(Get(options, "time")))

setPitchBend(value, options) ==
  LET v == Bend(value, Get(options, "rawValue"))
      nLevel == RoundDiv((v.n + v.d) * 16383, 2 * v.d)
  IN IF v.n < -v.d \/ v.n > v.d THEN Throw("RangeError")
     ELSE send(StatusByte("pitchbend"), <<Num(Lsb(nLevel)), Num(Msb(nLevel))>>,
               convertToTimestamp(Get(options, "time")))

\* setPitchBendRange(semitones, cents, options = {})
setPitchBendRange(semitones, cents, options) ==
  setRegisteredParameter(Str("pitchbendrange"), Arr(<<semitones, cents>>),
                         TimeOption(Get(options, "time")))

\* n - 1, NaN when n is NaN
MinusOne(v) == IF v.t = "number" THEN Frac(v.q - Den) ELSE NaN

\* setProgram(program, options = {}): no check of the program
\* (variant: the program is sent as given, one-based)
setProgram_OneBased(program, options) ==
  send(StatusByte("programchange"), <<parseFloat(program)>>,
       convertToTimestamp(Get(options, "time")))

setProgram(program, options) ==
  send(StatusByte("programchange"), <<MinusOne(parseFloat(program))>>,
       convertToTimestamp(Get(options, "time")))

\* setTuningBank(value, options = {}): setRegisteredParameter is called with
\* ("tuningbank", value - 1, this.number, {time}) and reads this.number as
\* its options.
\* (variant: the bank is sent as given, one-based)
setTuningBank_OneBased(value, options) ==
  LET v == parseInt(value) IN
  IF isNaN(v) \/ ~Between(v, 1, 128) THEN Throw("RangeError")
  ELSE setRegisteredParameter(Str("tuningbank"), v, Num(number))

setTuningBank(value, options) ==
  LET v == parseInt(value) IN
  IF isNaN(v) \/ ~Between(v, 1, 128) THEN Throw("RangeError")
  ELSE setRegisteredParameter(Str("tuningbank"), MinusOne(v), Num(number))

\* setTuningProgram(value, options = {}): as setTuningBank
setTuningProgram(value, options) ==
  LET v == parseInt(value) IN
  IF isNaN(v) \/ ~Between(v, 1, 128) THEN Throw("RangeError")
  ELSE setRegisteredParameter(Str("tuningprogram"), MinusOne(v), Num(number))

\* ------------------------------------------------------------------------
\* Arguments the calls are made with
\* ------------------------------------------------------------------------
Channels == 1..16

\* options.time: omitted, an absolute time (1 ms is in the past once the
\* clock has passed it), a relative time
Times == {Undefined, Num(1), Num(40), Plus(50)}
TimeOptions == {TimeOption(t) : t \in Times}

\* every controller number 0..119 and the numbers around them, numbers that
\* are not integers, names, and no controller at all
Controllers == {Num(c) : c \in -2..122}
               \cup {Frac(HalfDen), Frac(-HalfDen), Frac(119 * Den + HalfDen)}
               \cup {Str("volumecoarse"), Str("registeredparameterfine"),
                     Str("nosuchcontroller"), Undefined}
Values == {Num(0), Num(127), Num(300), Undefined}

\* select bytes: a name, or an array of two bytes
Parameters == {Str("pitchbendrange"), Str("gain"), Str("nosuchparameter"),
               Arr(<<Num(0), Num(0)>>), Arr(<<Num(3), Num(127)>>),
               Arr(<<Frac(3 * Den + HalfDen), Frac(Den + HalfDen)>>),
               Arr(<<Num(128), Num(0)>>), Arr(<<Num(0), Undefined>>)}
\* data: one value, or an array of one or two values
Data == {Num(12), Arr(<<Num(12)>>), Arr(<<Num(12), Num(0)>>),
         Arr(<<Num(127), Num(34)>>), Num(128), Arr(<<Num(12), Num(200)>>),
         Arr(<<Num(12), Str("x")>>), Arr(<<Num(12), Undefined>>), Undefined}

Notes == {<<NoteNumber(60)>>, <<NoteNumber(60), NoteObject(64, 0, 100)>>,
          <<NoteObject(67, 0, 100), NoteNumber(72), NoteNumber(60)>>}
Durations == {Undefined, Num(100), Num(0)}
NoteOptions ==
  {[time |-> t, duration |-> d, attack |-> a, rawAttack |-> ra,
    release |-> Undefined, rawRelease |-> Undefined,
    velocity |-> Undefined, rawVelocity |-> Undefined] :
     t \in Times, d \in Durations, a \in {Undefined, Frac(HalfDen \div 2)},
     ra \in {Undefined, Num(100)}}
  \cup {[time |-> t, duration |-> Num(100), attack |-> Undefined,
         rawAttack |-> Undefined, release |-> Frac(HalfDen \div 2),
         rawRelease |-> Undefined, velocity |-> v,
         rawVelocity |-> rv] :
     t \in Times, v \in {Undefined, Frac(HalfDen)}, rv \in {Undefined, True}}
NoteOffOptionsSet ==
  {[time |-> t, release |-> r, rawRelease |-> rr] :
     t \in Times, r \in {Undefined, Frac(HalfDen \div 2), Num(2)},
     rr \in {Undefined, Num(100), Num(200)}}
  \cup {Undefined}

Pressures == {Undefined, Num(0), Frac(HalfDen), Num(1), Num(2), Num(-1),
              Num(64), Num(127), Num(128), Str("x")}
Flags == {Undefined, True}

Commands == {Num(120), Num(127), Num(119), Num(128), Str("localcontrol"),
             Str("nosuchmode"), Undefined}
ModeValues == {Undefined, Num(0), Num(127), Num(128), Num(-1)}
States == {Undefined, True, False, Num(0), Num(1)}
Modes == {Undefined, Str("mono"), Str("poly")}

Tunings == {Undefined, Num(0), Frac(HalfDen), Frac(-HalfDen), Num(63),
            Frac(64 * Den - 1), Num(64), Num(-64), Frac(1 - 65 * Den), Num(-65),
            Frac(-64 * Den - HalfDen)}
Semitones == {Num(0), Num(12), Num(128), Undefined}
Cents == {Undefined, Num(0), Num(50)}
\* every multiple of 1/Den in [-1, 1] and just outside, and raw values
Bends == {Frac(k) : k \in (-Den - 2)..(Den + 2)}
         \cup {Undefined, Num(64), Num(127), Num(128)}
\* every program 1..128 and the numbers around them
Programs == {Num(p) : p \in -1..130} \cup {Undefined, Frac(Den + HalfDen)}
Banks == {Num(1), Num(128), Num(0), Num(129), Num(64), Undefined, Str("x")}

\* ------------------------------------------------------------------------
\* Initial state and actions: one action per public method
\* ------------------------------------------------------------------------
NoCall == [op |-> "none", args |-> [options |-> Undefined], err |-> "none",
           before |-> 0, upto |-> 0, at |-> 0, left |-> 1, resolved |-> 0,
           repeated |-> FALSE, again |-> "none"]

Init ==
  /\ number \in Channels
  /\ now = 0
  /\ sent = <<>>
  /\ call = NoCall

\* The call `op` with arguments `args` behaves as `r`: what it hands to the
\* output is appended to the log, whether it returns or throws.
Sent(r) == sent \o r.out
Called(op, args, r) ==
  [op |-> op, args |-> args, err |-> r.err, before |-> Len(sent),
   upto |-> Len(sent) + Len(r.out), at |-> now, left |-> call.left - 1,
   resolved |-> r.resolved, repeated |-> FALSE, again |-> "none"]

\* the clock advances between calls
Tick ==
  /\ now < MaxNow
  /\ now' = now + 1
  /\ UNCHANGED <<number, sent, call>>

SendControlChange ==
  /\ call.left > 0
  /\ \E controller \in Controllers, value \in Values, options \in TimeOptions :
       LET r == sendControlChange(controller, value, options) IN
       /\ sent' = Sent(r)
       /\ call' = Called("sendControlChange",
                         [controller |-> controller, value |-> value, options |-> options], r)
       /\ UNCHANGED <<number, now>>

SetRegisteredParameter ==
  /\ call.left > 0
  /\ \E parameter \in Parameters, data \in Data, options \in TimeOptions :
       LET r == setRegisteredParameter(parameter, data, options) IN
       /\ sent' = Sent(r)
       /\ call' = Called("setRegisteredParameter",
                         [parameter |-> parameter, data |-> data, options |-> options], r)
       /\ UNCHANGED <<number, now>>

SetNonRegisteredParameter ==
  /\ call.left > 0
  /\ \E parameter \in Parameters, data \in Data, options \in TimeOptions :
       LET r == setNonRegisteredParameter(parameter, data, options) IN
       /\ sent' = Sent(r)
       /\ call' = Called("setNonRegisteredParameter",
                         [parameter |-> parameter, data |-> data, options |-> options], r)
       /\ UNCHANGED <<number, now>>

IncrementRegisteredParameter ==
  /\ call.left > 0
  /\ \E parameter \in Parameters, options \in TimeOptions :
       LET r == incrementRegisteredParameter(parameter, options) IN
       /\ sent' = Sent(r)
       /\ call' = Called("incrementRegisteredParameter",
                         [parameter |-> parameter, options |-> options], r)
       /\ UNCHANGED <<number, now>>

DecrementRegisteredParameter ==
  /\ call.left > 0
  /\ \E parameter \in Parameters, options \in TimeOptions :
       LET r == decrementRegisteredParameter(parameter, options) IN
       /\ sent' = Sent(r)
       /\ call' = Called("decrementRegisteredParameter",
                         [parameter |-> parameter, options |-> options], r)
       /\ UNCHANGED <<number, now>>

PlayNote ==
  /\ call.left > 0
  /\ \E note \in Notes, options \in NoteOptions :
       LET r == playNote(note, options) IN
       /\ sent' = Sent(r)
       /\ call' = Called("playNote",
                         [note |-> note, options |-> options], r)
       /\ UNCHANGED <<number, now>>

SendNoteOn ==
  /\ call.left > 0
  /\ \E note \in Notes, options \in NoteOptions :
       LET r == sendNoteOn(note, options) IN
       /\ sent' = Sent(r)
       /\ call' = Called("sendNoteOn",
                         [note |-> note, options |-> options], r)
       /\ UNCHANGED <<number, now>>

SendNoteOff ==
  /\ call.left > 0
  /\ \E note \in Notes, options \in NoteOffOptionsSet :
       LET r == sendNoteOff(note, options) IN
       /\ sent' = Sent(r)
       /\ call' = Called("sendNoteOff",
                         [note |-> note, options |-> options], r)
       /\ UNCHANGED <<number, now>>

StopNote ==
  /\ call.left > 0
  /\ \E note \in Notes, options \in NoteOffOptionsSet :
       LET r == stopNote(note, options) IN
       /\ sent' = Sent(r)
       /\ call' = Called("stopNote",
                         [note |-> note, options |-> options], r)
       /\ UNCHANGED <<number, now>>

SetKeyAftertouch ==
  /\ call.left > 0
  /\ \E note \in Notes, pressure \in Pressures, raw \in Flags, time \in Times :
       LET r == setKeyAftertouch(note, pressure, [useRawValue |-> raw, time |-> time]) IN
       /\ sent' = Sent(r)
       /\ call' = Called("setKeyAftertouch",
                         [note |-> note, pressure |-> pressure, options |-> [useRawValue |-> raw, time |-> time]], r)
       /\ UNCHANGED <<number, now>>

SetChannelAftertouch ==
  /\ call.left > 0
  /\ \E pressure \in Pressures, raw \in Flags, time \in Times :
       LET r == setChannelAftertouch(pressure, [rawValue |-> raw, time |-> time]) IN
       /\ sent' = Sent(r)
       /\ call' = Called("setChannelAftertouch",
                         [pressure |-> pressure, options |-> [rawValue |-> raw, time |-> time]], r)
       /\ UNCHANGED <<number, now>>

SendChannelMode ==
  /\ call.left > 0
  /\ \E command \in Commands, value \in ModeValues, options \in TimeOptions :
       LET r == sendChannelMode(command, value, options) IN
       /\ sent' = Sent(r)
       /\ call' = Called("sendChannelMode",
                         [command |-> command, value |-> value, options |-> options], r)
       /\ UNCHANGED <<number, now>>

SetOmniMode ==
  /\ call.left > 0
  /\ \E state \in States, options \in TimeOptions :
       LET r == setOmniMode(state, options) IN
       /\ sent' = Sent(r)
       /\ call' = Called("setOmniMode",
                         [state |-> state, options |-> options], r)
       /\ UNCHANGED <<number, now>>

SetLocalControl ==
  /\ call.left > 0
  /\ \E state \in States, options \in TimeOptions :
       LET r == setLocalControl(state, options) IN
       /\ sent' = Sent(r)
       /\ call' = Called("setLocalControl",
                         [state |-> state, options |-> options], r)
       /\ UNCHANGED <<number, now>>

TurnNotesOff ==
  /\ call.left > 0
  /\ \E options \in TimeOptions :
       LET r == turnNotesOff(options) IN
       /\ sent' = Sent(r)
       /\ call' = Called("turnNotesOff",
                         [options |-> options], r)
       /\ UNCHANGED <<number, now>>

TurnSoundOff ==
  /\ call.left > 0
  /\ \E options \in TimeOptions :
       LET r == turnSoundOff(options) IN
       /\ sent' = Sent(r)
       /\ call' = Called("turnSoundOff",
                         [options |-> options], r)
       /\ UNCHANGED <<number, now>>

ResetAllControllers ==
  /\ call.left > 0
  /\ \E options \in TimeOptions :
       LET r == resetAllControllers(options) IN
       /\ sent' = Sent(r)
       /\ call' = Called("resetAllControllers",
                         [options |-> options], r)
       /\ UNCHANGED <<number, now>>

SetPolyphonicMode ==
  /\ call.left > 0
  /\ \E mode \in Modes, options \in TimeOptions :
       LET r == setPolyphonicMode(mode, options) IN
       /\ sent' = Sent(r)
       /\ call' = Called("setPolyphonicMode",
                         [mode |-> mode, options |-> options], r)
       /\ UNCHANGED <<number, now>>

SetMasterTuning ==
  /\ call.left > 0
  /\ \E value \in Tunings, options \in TimeOptions :
       LET r == setMasterTuning(value, options) IN
       /\ sent' = Sent(r)
       /\ call' = Called("setMasterTuning",
                         [value |-> value, options |-> options], r)
       /\ UNCHANGED <<number, now>>

SetModulationRange ==
  /\ call.left > 0
  /\ \E semitones \in Semitones, cents \in Cents, options \in TimeOptions :
       LET r == setModulationRange(semitones, cents, options) IN
       /\ sent' = Sent(r)
       /\ call' = Called("setModulationRange",
                         [semitones |-> semitones, cents |-> cents, options |-> options], r)
       /\ UNCHANGED <<number, now>>

SetPitchBend ==
  /\ call.left > 0
  /\ \E value \in Bends, raw \in Flags, time \in Times :
       LET r == setPitchBend(value, [rawValue |-> raw, time |-> time]) IN
       /\ sent' = Sent(r)
       /\ call' = Called("setPitchBend",
                         [value |-> value, options |-> [rawValue |-> raw, time |-> time]], r)
       /\ UNCHANGED <<number, now>>

SetPitchBendRange ==
  /\ call.left > 0
  /\ \E semitones \in Semitones, cents \in Cents, options \in TimeOptions :
       LET r == setPitchBendRange(semitones, cents, options) IN
       /\ sent' = Sent(r)
       /\ call' = Called("setPitchBendRange",
                         [semitones |-> semitones, cents |-> cents, options |-> options], r)
       /\ UNCHANGED <<number, now>>

SetProgram ==
  /\ call.left > 0
  /\ \E program \in Programs, options \in TimeOptions :
       LET r == setProgram(program, options) IN
       /\ sent' = Sent(r)
       /\ call' = Called("setProgram",
                         [program |-> program, options |-> options], r)
       /\ UNCHANGED <<number, now>>

SetTuningBank ==
  /\ call.left > 0
  /\ \E value \in Banks, options \in TimeOptions :
       LET r == setTuningBank(value, options) IN
       /\ sent' = Sent(r)
       /\ call' = Called("setTuningBank",
                         [value |-> value, options |-> options], r)
       /\ UNCHANGED <<number, now>>

SetTuningProgram ==
  /\ call.left > 0
  /\ \E value \in Banks, options \in TimeOptions :
       LET r == setTuningProgram(value, options) IN
       /\ sent' = Sent(r)
       /\ call' = Called("setTuningProgram",
                         [value |-> value, options |-> options], r)
       /\ UNCHANGED <<number, now>>

\* arr[i] = v
SetAt(arr, i, v) ==
  Arr([k \in 1..(IF i > Len(arr.e) THEN i ELSE Len(arr.e)) |->
         IF k = i THEN v ELSE At(arr, k)])

\* The caller's parameter array as the select helpers leave it: they write
\* Math.floor(parameter[0]) back, and Math.floor(parameter[1]) when the first
\* byte passed its check.
FlooredInPlace(parameter) ==
  LET p0 == MathFloor(At(parameter, 1))
      first == SetAt(parameter, 1, p0)
  IN IF ~Between(p0, 0, 127) THEN first
     ELSE SetAt(first, 2, MathFloor(At(parameter, 2)))

\* The caller's argument objects as the call `op` leaves them. Only the
\* parameter array and the options of the note operations are written to;
\* every other argument is read, or copied before it is changed.
ArgsAfter(op, args) ==
  IF op \in {"setRegisteredParameter", "setNonRegisteredParameter",
             "incrementRegisteredParameter", "decrementRegisteredParameter"}
  THEN IF args.parameter.t = "array"
       THEN [args EXCEPT !.parameter = FlooredInPlace(@)]
       ELSE args
  ELSE IF op = "sendNoteOn"
  THEN [args EXCEPT !.options = NoteOnOptions(@)]
  ELSE IF op \in {"sendNoteOff", "stopNote"}
  THEN IF IsOmitted(args.options) THEN args
       ELSE [args EXCEPT !.options = NoteOffOptions(@)]
  ELSE IF op = "playNote"
  THEN IF IsOmitted(args.options) THEN args
       ELSE IF isNaN(Get(args.options, "duration"))
       THEN [args EXCEPT !.options = NoteOnOptions(@)]
       ELSE [args EXCEPT !.options = NoteOffOptions(NoteOnOptions(@))]
  ELSE args

\* channel[op](...args)
Invoke(op, args) ==
  CASE op = "sendControlChange" ->
         sendControlChange(args.controller, args.value, args.options)
    [] op = "setRegisteredParameter" ->
         setRegisteredParameter(args.parameter, args.data, args.options)
    [] op = "setNonRegisteredParameter" ->
         setNonRegisteredParameter(args.parameter, args.data, args.options)
    [] op = "incrementRegisteredParameter" ->
         incrementRegisteredParameter(args.parameter, args.options)
    [] op = "decrementRegisteredParameter" ->
         decrementRegisteredParameter(args.parameter, args.options)
    [] op = "playNote" -> playNote(args.note, args.options)
    [] op = "sendNoteOn" -> sendNoteOn(args.note, args.options)
    [] op = "sendNoteOff" -> sendNoteOff(args.note, args.options)
    [] op = "stopNote" -> stopNote(args.note, args.options)
    [] op = "setKeyAftertouch" ->
         setKeyAftertouch(args.note, args.pressure, args.options)
    [] op = "setChannelAftertouch" ->
         setChannelAftertouch(args.pressure, args.options)
    [] op = "sendChannelMode" ->
         sendChannelMode(args.command, args.value, args.options)
    [] op = "setOmniMode" -> setOmniMode(args.state, args.options)
    [] op = "setLocalControl" -> setLocalControl(args.state, args.options)
    [] op = "turnNotesOff" -> turnNotesOff(args.options)
    [] op = "turnSoundOff" -> turnSoundOff(args.options)
    [] op = "resetAllControllers" -> resetAllControllers(args.options)
    [] op = "setPolyphonicMode" -> setPolyphonicMode(args.mode, args.options)
    [] op = "setMasterTuning" -> setMasterTuning(args.value, args.options)
    [] op = "setModulationRange" ->
         setModulationRange(args.semitones, args.cents, args.options)
    [] op = "setPitchBend" -> setPitchBend(args.value, args.options)
    [] op = "setPitchBendRange" ->
         setPitchBendRange(args.semitones, args.cents, args.options)
    [] op = "setProgram" -> setProgram(args.program, args.options)
    [] op = "setTuningBank" -> setTuningBank(args.value, args.options)
    [] op = "setTuningProgram" -> setTuningProgram(args.value, args.options)

\* The caller makes the same call once more, with the same argument objects
\* as the first call left them.
Repeat ==
  /\ call.op # "none"
  /\ ~call.repeated
  /\ LET r == Invoke(call.op, ArgsAfter(call.op, call.args)) IN
     /\ sent' = Sent(r)
     /\ call' = [call EXCEPT !.repeated = TRUE, !.again = r.err]
     /\ UNCHANGED <<number, now>>

Next ==
  \/ Tick
  \/ Repeat
  \/ SendControlChange
  \/ SetRegisteredParameter
  \/ SetNonRegisteredParameter
  \/ IncrementRegisteredParameter
  \/ DecrementRegisteredParameter
  \/ PlayNote
  \/ SendNoteOn
  \/ SendNoteOff
  \/ StopNote
  \/ SetKeyAftertouch
  \/ SetChannelAftertouch
  \/ SendChannelMode
  \/ SetOmniMode
  \/ SetLocalControl
  \/ TurnNotesOff
  \/ TurnSoundOff
  \/ ResetAllControllers
  \/ SetPolyphonicMode
  \/ SetMasterTuning
  \/ SetModulationRange
  \/ SetPitchBend
  \/ SetPitchBendRange
  \/ SetProgram
  \/ SetTuningBank
  \/ SetTuningProgram

Spec == Init /\ [][Next]_vars

\* ------------------------------------------------------------------------
\* What the claims speak of
\* ------------------------------------------------------------------------
\* the messages the last call handed to the output, in order
CallOut == SubSeq(sent, call.before + 1, call.upto)
\* their data, and their (controller, value) pairs as integers
CallData == [i \in 1..Len(CallOut) |-> CallOut[i].data]
\* the control change message controller = value, as its data
CC(controller, value) == <<Num(controller), Num(value)>>
\* v is an integer lo..hi
IsByte(v, lo, hi) == IsInt(v) /\ IntOf(v) \in lo..hi
\* the select bytes of the call's parameter argument: a pair of integers, for
\* an array of two integers 0..127 and for a name of the table
ValidPair(parameter) ==
  \/ parameter.t = "array" /\ Len(parameter.e) = 2
     /\ IsByte(parameter.e[1], 0, 127) /\ IsByte(parameter.e[2], 0, 127)
  \/ parameter.t = "string" /\ parameter.s \in DOMAIN MIDI_REGISTERED_PARAMETER
PairOf(parameter) ==
  IF parameter.t = "array" THEN <<IntOf(parameter.e[1]), IntOf(parameter.e[2])>>
  ELSE MIDI_REGISTERED_PARAMETER[parameter.s]
\* the data argument as the list of its values
DataOf(data) == IF data.t = "array" THEN data.e ELSE <<data>>
ValidData(data) ==
  /\ Len(DataOf(data)) \in {1, 2}
  /\ \A i \in 1..Len(DataOf(data)) : IsByte(DataOf(data)[i], 0, 127)
\* the status byte control changes carry on this channel
ControlChangeStatus == 176 + (number - 1)

\* The command families an operation may use.
Families ==
  [sendControlChange |-> {11}, setRegisteredParameter |-> {11},
   setNonRegisteredParameter |-> {11}, incrementRegisteredParameter |-> {11},
   decrementRegisteredParameter |-> {11}, playNote |-> {9, 8},
   sendNoteOn |-> {9}, sendNoteOff |-> {8}, stopNote |-> {8},
   setKeyAftertouch |-> {10}, setChannelAftertouch |-> {13},
   sendChannelMode |-> {11}, setOmniMode |-> {11}, setLocalControl |-> {11},
   turnNotesOff |-> {11}, turnSoundOff |-> {11}, resetAllControllers |-> {11},
   setPolyphonicMode |-> {11}, setMasterTuning |-> {11},
   setModulationRange |-> {11}, setPitchBend |-> {14},
   setPitchBendRange |-> {11}, setProgram |-> {12}, setTuningBank |-> {11},
   setTuningProgram |-> {11}]

\* C1: every message an operation hands to the output has the status byte
\* (command nibble << 4) | (channel - 1): the low nibble is channel - 1, the
\* high nibble is a command family of the operation, and it lies in 128..255.
C1_StatusByte ==
  \A i \in 1..Len(CallOut) :
    LET status == CallOut[i].status IN
    /\ status \in 128..255
    /\ status % 16 = number - 1
    /\ status \div 16 \in Families[call.op]

\* On channel 16 a played note went out as a note on (0x9F) followed by a
\* note off (0x8F).
C1_Witness ==
  /\ number = 16
  /\ call.op = "playNote"
  /\ Len(CallOut) = 2
  /\ CallOut[1].status = 159
  /\ CallOut[2].status = 143

\* The sequence setRegisteredParameter is to emit for select bytes p and data d.
ParameterSequence(p, d) ==
  <<CC(101, p[1]), CC(100, p[2]), <<Num(6), d[1]>>>>
  \o (IF Len(d) = 2 THEN <<<<Num(38), d[2]>>>> ELSE <<>>)
  \o <<CC(101, 127), CC(100, 127)>>

\* C2: setRegisteredParameter with a valid pair (p0, p1) and valid data emits,
\* in this order and with nothing in between, control change 0x65 = p0,
\* 0x64 = p1, 0x06 = data MSB, 0x26 = data LSB only when a second data value is
\* supplied, then 0x65 = 127 and 0x64 = 127: 5 messages for one data value
\* and 6 for two.
C2_SetRegisteredParameterOrder ==
  (/\ call.op = "setRegisteredParameter"
   /\ ValidPair(call.args.parameter)
   /\ ValidData(call.args.data))
  => /\ call.err = "none"
     /\ CallData = ParameterSequence(PairOf(call.args.parameter),
                                     DataOf(call.args.data))
     /\ Len(CallOut) = 4 + Len(DataOf(call.args.data))
     /\ \A i \in 1..Len(CallOut) : CallOut[i].status = ControlChangeStatus

\* "gain" (0x3D, 0x02) was set with two data values, and six messages went out.
C2_Witness ==
  /\ call.op = "setRegisteredParameter"
  /\ call.args.parameter = Str("gain")
  /\ call.args.data = Arr(<<Num(127), Num(34)>>)
  /\ call.err = "none"
  /\ Len(CallOut) = 6

\* the call setRegisteredParameter("pitchbendrange", [12, 0])
IsPitchBendRange12_0 ==
  /\ call.op = "setRegisteredParameter"
  /\ call.args.parameter = Str("pitchbendrange")
  /\ call.args.data = Arr(<<Num(12), Num(0)>>)

\* C3 as claimed: setRegisteredParameter("pitchbendrange", [12,0]) emits
\* exactly the 5 messages 0x65 = 0, 0x64 = 0, 0x06 = 12, 0x65 = 127,
\* 0x64 = 127, and no control change 0x26.
C3_FiveMessages ==
  IsPitchBendRange12_0
  => CallData = <<CC(101, 0), CC(100, 0), CC(6, 12), CC(101, 127), CC(100, 127)>>

\* C3, amended: setRegisteredParameter("pitchbendrange", [12,0]) supplies two
\* data values and emits exactly 6 messages, 0x65 = 0, 0x64 = 0, 0x06 = 12,
\* 0x26 = 0, 0x65 = 127, 0x64 = 127; the 5 messages without 0x26 are what
\* the data 12 or [12] emits.
C3_SixMessages ==
  /\ IsPitchBendRange12_0
     => /\ call.err = "none"
        /\ CallData = <<CC(101, 0), CC(100, 0), CC(6, 12), CC(38, 0),
                        CC(101, 127), CC(100, 127)>>
  /\ (/\ call.op = "setRegisteredParameter"
      /\ call.args.parameter = Str("pitchbendrange")
      /\ call.args.data \in {Num(12), Arr(<<Num(12)>>)})
     => /\ call.err = "none"
        /\ CallData = <<CC(101, 0), CC(100, 0), CC(6, 12),
                        CC(101, 127), CC(100, 127)>>

\* The call was made and six messages went out.
C3_Witness == IsPitchBendRange12_0 /\ Len(CallOut) = 6

\* the timestamp the time resolver gave for `time` when the call was made
Resolved(time) == Resolve(time, call.at)
\* a byte of a parameter sequence that is missing, not a number or outside 0..127
BadByte(v) == ~Between(v, 0, 127)
\* a select byte or a data byte of the call is bad
BadBytes(parameter, data) ==
  \/ BadByte(At(parameter, 1))
  \/ BadByte(At(parameter, 2))
  \/ \E i \in 1..Len(DataOf(data)) : BadByte(DataOf(data)[i])
\* the parameter argument names two select bytes: an array, or a known name
Selects(parameter) ==
  \/ parameter.t = "array"
  \/ parameter.t = "string" /\ parameter.s \in DOMAIN MIDI_REGISTERED_PARAMETER
SelectBytes(parameter) == RegisteredParameter(parameter)

\* C4: in the parameter operations, a select byte or a data byte that is
\* missing, non-numeric or outside 0..127 makes the call fail with a range
\* error before any message is handed to the output.
C4_FailFast ==
  /\ (/\ call.op \in {"setRegisteredParameter", "setNonRegisteredParameter"}
      /\ Selects(call.args.parameter)
      /\ BadBytes(SelectBytes(call.args.parameter), call.args.data))
     => (call.err = "RangeError" /\ CallOut = <<>>)
  /\ (/\ call.op \in {"setPitchBendRange", "setModulationRange"}
      /\ (BadByte(call.args.semitones) \/ BadByte(call.args.cents)))
     => (call.err = "RangeError" /\ CallOut = <<>>)

\* C5: playNote with a numeric duration d and a time t emits the note on
\* with the timestamp resolved from t and the note off with that timestamp
\* plus d.
C5_NoteOffAfterDuration ==
  (/\ call.op = "playNote"
   /\ ~isNaN(call.args.options.duration)
   /\ call.err = "none")
  => \A i \in 1..Len(CallOut) :
       /\ CallOut[i].status \div 16 = 9
          => CallOut[i].timestamp = Resolved(call.args.options.time)
       /\ CallOut[i].status \div 16 = 8
          => CallOut[i].timestamp =
               Resolved(call.args.options.time) + call.args.options.duration.q

\* C6: every message of a call of setRegisteredParameter,
\* setNonRegisteredParameter, incrementRegisteredParameter or
\* decrementRegisteredParameter carries the timestamp resolved from
\* options.time.
C6_SharedTimestamp ==
  call.op \in {"setRegisteredParameter", "setNonRegisteredParameter",
               "incrementRegisteredParameter", "decrementRegisteredParameter"}
  => \A i \in 1..Len(CallOut) :
       CallOut[i].timestamp = Resolved(call.args.options.time)

C9_PitchBend ==
  (/\ call.op = "setPitchBend"
   /\ IsNumber(call.args.value)
   /\ ~Truthy(call.args.options.rawValue))
  => LET k == call.args.value.q IN
     IF -Den <= k /\ k <= Den
     THEN /\ call.err = "none"
          /\ Len(CallOut) = 1
          /\ CallOut[1].status = 224 + (number - 1)
          /\ Len(CallOut[1].data) = 2
          /\ LET lsb == CallOut[1].data[1]
                 msb == CallOut[1].data[2]
                 r == IntOf(msb) * 128 + IntOf(lsb)
             IN /\ IsByte(lsb, 0, 127)
                /\ IsByte(msb, 0, 127)
                /\ (2 * r - 1) * Den <= (k + Den) * 16383
                /\ (k + Den) * 16383 < (2 * r + 1) * Den
     ELSE call.err = "RangeError" /\ CallOut = <<>>

\* The full bend up went out on channel 16 as (lsb, msb) = (127, 127).
C9_Witness ==
  /\ call.op = "setPitchBend"
  /\ number = 16
  /\ ~Truthy(call.args.options.rawValue)
  /\ call.args.value = Num(1)
  /\ CallData = <<CC(127, 127)>>

\* C10: for every program p in 1..128, setProgram(p) emits exactly one
\* message with status 0xC0 | (channel - 1) and the single data byte p - 1.
C10_Program ==
  (call.op = "setProgram" /\ IsByte(call.args.program, 1, 128))
  => /\ call.err = "none"
     /\ Len(CallOut) = 1
     /\ CallOut[1].status = 192 + (number - 1)
     /\ CallOut[1].data = <<Num(IntOf(call.args.program) - 1)>>

\* Program 128 went out as data [127].
C10_Witness ==
  /\ call.op = "setProgram"
  /\ call.args.program = Num(128)
  /\ CallData = <<<<Num(127)>>>>

\* C11: setProgram with a program outside 1..128 (0, 129, a non-integer, a
\* missing value) fails with a range error and hands no message to the
\* output; no program change ever carries a data byte outside 0..127.
C11_ProgramRejects ==
  call.op = "setProgram"
  => /\ ~IsByte(call.args.program, 1, 128)
        => (call.err = "RangeError" /\ CallOut = <<>>)
     /\ \A i \in 1..Len(CallOut) : IsByte(CallOut[i].data[1], 0, 127)

\* The sequence setNonRegisteredParameter is to emit for select bytes p and
\* data d.
NonRegisteredSequence(p, d) ==
  <<CC(99, p[1]), CC(98, p[2]), <<Num(6), d[1]>>>>
  \o (IF Len(d) = 2 THEN <<<<Num(38), d[2]>>>> ELSE <<>>)
  \o <<CC(101, 127), CC(100, 127)>>

\* C12: setNonRegisteredParameter with a valid pair (p0, p1) and valid data
\* emits, in order, control change 0x63 = p0, 0x62 = p1, 0x06 = data MSB,
\* 0x26 = data LSB only when a second data value is supplied, then the
\* deselect pair 0x65 = 127 and 0x64 = 127.
C12_SetNonRegisteredParameterOrder ==
  (/\ call.op = "setNonRegisteredParameter"
   /\ call.args.parameter.t = "array"
   /\ ValidPair(call.args.parameter)
   /\ ValidData(call.args.data))
  => /\ call.err = "none"
     /\ CallData = NonRegisteredSequence(PairOf(call.args.parameter),
                                         DataOf(call.args.data))
     /\ \A i \in 1..Len(CallOut) : CallOut[i].status = ControlChangeStatus

\* The non-registered parameter (3, 127) was set with two data values, and
\* six messages went out, ending with the deselect pair.
C12_Witness ==
  /\ call.op = "setNonRegisteredParameter"
  /\ call.args.parameter = Arr(<<Num(3), Num(127)>>)
  /\ call.args.data = Arr(<<Num(127), Num(34)>>)
  /\ Len(CallOut) = 6
  /\ CallData[1] = CC(99, 3)
  /\ CallData[6] = CC(100, 127)

\* C13: incrementRegisteredParameter and decrementRegisteredParameter with a
\* valid parameter (p0, p1) each emit exactly 5 messages in order: control
\* change 0x65 = p0, 0x64 = p1, then 0x60 (increment) or 0x61 (decrement)
\* with value 0, then 0x65 = 127 and 0x64 = 127.
C13_IncrementDecrement ==
  (/\ call.op \in {"incrementRegisteredParameter", "decrementRegisteredParameter"}
   /\ ValidPair(call.args.parameter))
  => LET p == PairOf(call.args.parameter)
         step == IF call.op = "incrementRegisteredParameter" THEN 96 ELSE 97
     IN /\ call.err = "none"
        /\ CallData = <<CC(101, p[1]), CC(100, p[2]), CC(step, 0),
                        CC(101, 127), CC(100, 127)>>
        /\ \A i \in 1..Len(CallOut) : CallOut[i].status = ControlChangeStatus

\* "gain" (0x3D, 0x02) was incremented: five messages, the third 0x60 = 0.
C13_Witness ==
  /\ call.op = "incrementRegisteredParameter"
  /\ call.args.parameter = Str("gain")
  /\ Len(CallOut) = 5
  /\ CallData[1] = CC(101, 61)
  /\ CallData[3] = CC(96, 0)

\* C14: sendNoteOn given n notes emits exactly n note-on messages with status
\* 0x90 | (channel - 1), the i-th carrying the number of the i-th note, in
\* input order, and the attack velocity the note resolver gives it: the
\* note's own attack for a Note object, sent unchanged when it is 0.
C14_NoteOnOrder ==
  call.op = "sendNoteOn"
  => LET note == call.args.note IN
     /\ call.err = "none"
     /\ Len(CallOut) = Len(note)
     /\ \A i \in 1..Len(CallOut) :
          /\ CallOut[i].status = 144 + (number - 1)
          /\ Len(CallOut[i].data) = 2
          /\ CallOut[i].data[1] = Num(note[i].number)
          /\ IsByte(CallOut[i].data[2], 0, 127)
          /\ note[i].own => CallOut[i].data[2] = note[i].rawAttack

\* Three notes went out on channel 16 in input order, the first with its own
\* attack velocity 0.
C14_Witness ==
  /\ call.op = "sendNoteOn"
  /\ number = 16
  /\ call.args.note = <<NoteObject(67, 0, 100), NoteNumber(72), NoteNumber(60)>>
  /\ Len(CallOut) = 3
  /\ CallOut[1].status = 159
  /\ CallOut[1].data = CC(67, 0)
  /\ CallOut[2].data[1] = Num(72)
  /\ CallOut[3].data[1] = Num(60)

\* C15: sendNoteOn with options.rawAttack = r, r an integer in 1..127, gives
\* r as the default velocity to the note resolver whatever options.attack
\* is: every note that brings no velocity of its own goes out with velocity r.
C15_RawAttackPriority ==
  (/\ call.op = "sendNoteOn"
   /\ IsByte(call.args.options.rawAttack, 1, 127)
   /\ ~Truthy(call.args.options.rawVelocity)
   /\ ~Truthy(call.args.options.velocity))
  => \A i \in 1..Len(CallOut) :
       ~call.args.note[i].own
       => CallOut[i].data[2] = call.args.options.rawAttack

\* the pressure argument of the call is missing, not a number, or outside its
\* declared range: [0, 1], or 0..127 when the raw-value option is set
InvalidPressure(pressure, raw) ==
  \/ ~IsNumber(pressure)
  \/ pressure.q < 0
  \/ ~Truthy(raw) /\ pressure.q > Den
  \/ Truthy(raw) /\ pressure.q > 127 * Den
\* the raw-value option of the aftertouch call
RawOption ==
  IF call.op = "setKeyAftertouch" THEN call.args.options.useRawValue
  ELSE call.args.options.rawValue

\* C16: setChannelAftertouch and setKeyAftertouch never fail because of the
\* pressure: a pressure that is missing, non-numeric or outside its declared
\* range is replaced by the default and the pressure byte sent is 64, in raw
\* mode as in normalized mode.
C16_AftertouchNeverFails ==
  call.op \in {"setChannelAftertouch", "setKeyAftertouch"}
  => /\ call.err = "none"
     /\ InvalidPressure(call.args.pressure, RawOption)
        => /\ Len(CallOut) >= 1
           /\ \A i \in 1..Len(CallOut) :
                CallOut[i].data[Len(CallOut[i].data)] = Num(64)

\* the command argument names no channel mode message
UnknownMode(command) ==
  command.t = "string" /\ command.s \notin DOMAIN MIDI_CHANNEL_MODE_MESSAGES

\* C17: sendChannelMode fails with a range error when the numeric command is
\* outside 120..127 or the value is outside 0..127, and with a type error
\* when the command is a string that is no channel-mode name; in each case
\* nothing is handed to the output.
C17_ChannelModeRejects ==
  call.op = "sendChannelMode"
  => /\ UnknownMode(call.args.command)
        => (call.err = "TypeError" /\ CallOut = <<>>)
     /\ (/\ ~UnknownMode(call.args.command)
         /\ \/ IsNumber(call.args.command) /\ ~Between(call.args.command, 120, 127)
            \/ IsNumber(call.args.value) /\ ~Between(call.args.value, 0, 127))
        => (call.err = "RangeError" /\ CallOut = <<>>)

\* the call emitted the one channel mode message [command, value]
ModeMessage(command, value) ==
  /\ call.err = "none"
  /\ Len(CallOut) = 1
  /\ CallOut[1].status = ControlChangeStatus
  /\ CallOut[1].data = CC(command, value)
\* the command number of a valid command argument, a number or a name
ModeNumber(command) ==
  IF command.t = "string" THEN MIDI_CHANNEL_MODE_MESSAGES[command.s]
  ELSE IntOf(command)
ValidMode(command) ==
  \/ command.t = "string" /\ command.s \in DOMAIN MIDI_CHANNEL_MODE_MESSAGES
  \/ IsByte(command, 120, 127)

\* C18: each channel-mode convenience operation emits exactly one message
\* with status 0xB0 | (channel - 1) and the data turnSoundOff [120,0],
\* resetAllControllers [121,0], setLocalControl [122,127] for a truthy state
\* and [122,0] otherwise, turnNotesOff [123,0], setOmniMode [125,0] for an
\* omitted or truthy state and [124,0] otherwise, setPolyphonicMode [126,0]
\* for "mono" and [127,0] otherwise; sendChannelMode(c) without a value
\* sends the value 0.
C18_ChannelModeWrappers ==
  /\ call.op = "turnSoundOff" => ModeMessage(120, 0)
  /\ call.op = "resetAllControllers" => ModeMessage(121, 0)
  /\ call.op = "setLocalControl"
     => ModeMessage(122, IF Truthy(call.args.state) THEN 127 ELSE 0)
  /\ call.op = "turnNotesOff" => ModeMessage(123, 0)
  /\ call.op = "setOmniMode"
     => ModeMessage(IF call.args.state = Undefined \/ Truthy(call.args.state)
                    THEN 125 ELSE 124, 0)
  /\ call.op = "setPolyphonicMode"
     => ModeMessage(IF call.args.mode = Str("mono") THEN 126 ELSE 127, 0)
  /\ (/\ call.op = "sendChannelMode"
      /\ ValidMode(call.args.command)
      /\ call.args.value = Undefined)
     => ModeMessage(ModeNumber(call.args.command), 0)

\* Local control was switched on on channel 16: one message, [122, 127].
C18_Witness ==
  /\ call.op = "setLocalControl"
  /\ call.args.state = True
  /\ number = 16
  /\ Len(CallOut) = 1
  /\ CallOut[1].status = 191
  /\ CallOut[1].data = CC(122, 127)

\* the two sequences setMasterTuning is to emit for the tuning k / Den: the
\* coarse sequence with the byte floor + 64, then the fine sequence with the
\* (MSB, LSB) of the rounded 14-bit level of the fractional part
MasterTuningSent(k) ==
  LET floor == k \div Den
      f == k - floor * Den
  IN /\ call.err = "none"
     /\ Len(CallOut) = 11
     /\ floor + 64 \in 0..127
     /\ SubSeq(CallData, 1, 5) =
          ParameterSequence(PairOf(Str("channelcoarsetuning")), <<Num(floor + 64)>>)
     /\ LET msb == CallData[8][2]
            lsb == CallData[9][2]
            r == IntOf(msb) * 128 + IntOf(lsb)
        IN /\ IsByte(msb, 0, 127)
           /\ IsByte(lsb, 0, 127)
           /\ SubSeq(CallData, 6, 11) =
                ParameterSequence(PairOf(Str("channelfinetuning")), <<msb, lsb>>)
           /\ (2 * r - 1) * Den <= (f + Den) * 16383
           /\ (f + Den) * 16383 < (2 * r + 1) * Den

\* C19: for every value v with -65 < v < 64, setMasterTuning(v) succeeds and
\* emits the channel-coarse-tuning sequence with the data byte floor(v) + 64,
\* in 0..127, then the channel-fine-tuning sequence with the (MSB, LSB) of
\* round((f + 1) / 2 * 16383), f = v - floor(v); for v <= -65 or v >= 64 it
\* fails with a range error and emits nothing.
C19_MasterTuning ==
  (call.op = "setMasterTuning" /\ IsNumber(call.args.value))
  => LET k == call.args.value.q IN
     IF (-65) * Den < k /\ k < 64 * Den
     THEN MasterTuningSent(k)
     ELSE call.err = "RangeError" /\ CallOut = <<>>

\* C20: setTuningBank(v) and setTuningProgram(v) with v in 1..128 emit the
\* registered-parameter sequence of "tuningbank" (0x00, 0x04), respectively
\* "tuningprogram" (0x00, 0x03), with the single data byte v - 1: 5 messages;
\* with v outside 1..128 or not a number they fail with a range error and
\* emit nothing.
C20_TuningBankProgram ==
  call.op \in {"setTuningBank", "setTuningProgram"}
  => LET name == IF call.op = "setTuningBank" THEN "tuningbank" ELSE "tuningprogram"
         pair == IF call.op = "setTuningBank" THEN <<0, 4>> ELSE <<0, 3>>
     IN IF IsByte(call.args.value, 1, 128)
        THEN /\ call.err = "none"
             /\ Len(CallOut) = 5
             /\ MIDI_REGISTERED_PARAMETER[name] = pair
             /\ CallData = ParameterSequence(pair, <<Num(IntOf(call.args.value) - 1)>>)
             /\ \A i \in 1..Len(CallOut) : CallOut[i].status = ControlChangeStatus
        ELSE call.err = "RangeError" /\ CallOut = <<>>

\* Tuning bank 128 was selected: five messages, the third 0x06 = 127.
C20_Witness ==
  /\ call.op = "setTuningBank"
  /\ call.args.value = Num(128)
  /\ Len(CallOut) = 5
  /\ CallData[2] = CC(100, 4)
  /\ CallData[3] = CC(6, 127)

\* the messages the repeated call handed to the output, in order
AgainOut == SubSeq(sent, call.upto + 1, Len(sent))
\* the status and data bytes of a sequence of messages, without the timestamps
Bytes(out) == [i \in 1..Len(out) |-> [status |-> out[i].status, data |-> out[i].data]]

\* C24: two calls of the same operation with identical arguments on the same
\* channel, the second with the argument objects the first was given, hand
\* byte-identical message sequences to the output (same count, status and
\* data bytes, order) and end the same way.
C24_Idempotent ==
  call.repeated
  => /\ call.again = call.err
     /\ Bytes(AgainOut) = Bytes(CallOut)

\* A parameter array [3.5, 1.5] was used for two calls: the first call wrote
\* [3, 1] into it, and both calls sent the same six messages.
C24_Witness ==
  /\ call.repeated
  /\ call.op = "setRegisteredParameter"
  /\ call.args.parameter = Arr(<<Frac(3 * Den + HalfDen), Frac(Den + HalfDen)>>)
  /\ ArgsAfter(call.op, call.args).parameter = Arr(<<Num(3), Num(1)>>)
  /\ Len(CallOut) = 6
  /\ Len(AgainOut) = 6

\* the registered parameter of the two range helpers
RangeParameter ==
  IF call.op = "setPitchBendRange" THEN Str("pitchbendrange")
  ELSE Str("modulationrange")

\* C21: setPitchBendRange(semitones) and setModulationRange(semitones) with
\* cents omitted behave as with cents = 0: they end without error and emit
\* the whole select, set, deselect sequence of their parameter with the data
\* MSB = semitones (and the data LSB 0, if it is sent at all).
C21_CentsOmitted ==
  (/\ call.op \in {"setPitchBendRange", "setModulationRange"}
   /\ call.args.cents = Undefined
   /\ IsByte(call.args.semitones, 0, 127))
  => /\ call.err = "none"
     /\ CallData \in
          {ParameterSequence(PairOf(RangeParameter), <<call.args.semitones>>),
           ParameterSequence(PairOf(RangeParameter), <<call.args.semitones, Num(0)>>)}

\* C22: sendNoteOff(note) and stopNote(note) with the options omitted do not
\* fail: they emit one note-off message per resolved note with status
\* 0x80 | (channel - 1), the default release velocity 64 for a note without a
\* velocity of its own, and an immediate timestamp.
C22_NoteOffOptionsOmitted ==
  (/\ call.op \in {"sendNoteOff", "stopNote"}
   /\ IsOmitted(call.args.options))
  => /\ call.err = "none"
     /\ Len(CallOut) = Len(call.args.note)
     /\ \A i \in 1..Len(CallOut) :
          /\ CallOut[i].status = 128 + (number - 1)
          /\ CallOut[i].data[1] = Num(call.args.note[i].number)
          /\ ~call.args.note[i].own => CallOut[i].data[2] = Num(64)
          /\ CallOut[i].timestamp = Resolved(Undefined)

\* C23: setRegisteredParameter, incrementRegisteredParameter and
\* decrementRegisteredParameter given a parameter name that is not in the
\* registered-parameter table all fail with a type error and hand no message
\* to the output.
C23_UnknownParameterName ==
  (/\ call.op \in {"setRegisteredParameter", "incrementRegisteredParameter",
                   "decrementRegisteredParameter"}
   /\ call.args.parameter.t = "string"
   /\ call.args.parameter.s \notin DOMAIN MIDI_REGISTERED_PARAMETER)
  => (call.err = "TypeError" /\ CallOut = <<>>)

\* C25: with options.rawValue set, setPitchBend accepts every raw integer
\* 0..127, and the raw value 64 means no bend: it emits the two data bytes
\* that setPitchBend(0) emits.
C25_RawPitchBendCentre ==
  (/\ call.op = "setPitchBend"
   /\ Truthy(call.args.options.rawValue)
   /\ IsByte(call.args.value, 0, 127))
  => /\ call.err = "none"
     /\ Len(CallOut) = 1
     /\ call.args.value = Num(64)
        => CallOut[1].data =
             setPitchBend(Num(0), [rawValue |-> Undefined, time |-> Undefined]).out[1].data

\* C26: in every state of the output log, after any calls, returned or
\* failed, every message has a status byte in 128..255 and 0 to 2 data
\* bytes, each a defined integer in 0..255.
C26_WireBytes ==
  \A i \in 1..Len(sent) :
    /\ sent[i].status \in 128..255
    /\ Len(sent[i].data) \in 0..2
    /\ \A j \in 1..Len(sent[i].data) : IsByte(sent[i].data[j], 0, 255)

\* the operations that run a parameter sequence, directly or through
\* setRegisteredParameter
ParameterOperations ==
  {"setRegisteredParameter", "setNonRegisteredParameter",
   "incrementRegisteredParameter", "decrementRegisteredParameter",
   "setPitchBendRange", "setModulationRange", "setMasterTuning",
   "setTuningBank", "setTuningProgram"}

\* C27: the deselect step is unconditional: when a call of a parameter
\* operation has handed at least one message to the output, then at its
\* end, returned or failed, the last two messages it emitted are control
\* change 0x65 = 127 and 0x64 = 127.
C27_DeselectUnconditional ==
  (call.op \in ParameterOperations /\ Len(CallOut) >= 1)
  => /\ Len(CallOut) >= 2
     /\ CallData[Len(CallOut) - 1] = CC(101, 127)
     /\ CallData[Len(CallOut)] = CC(100, 127)

\* C28: every public operation calls the time resolver exactly once per
\* call, whatever the number of messages it emits, and all the messages of
\* the call carry that one timestamp.
C28_ResolvedOnce ==
  (call.op # "none" /\ Len(CallOut) >= 1)
  => /\ call.resolved = 1
     /\ \A i \in 1..Len(CallOut) : CallOut[i].timestamp = CallOut[1].timestamp

\* C29: setTuningBank and setTuningProgram called with options.time = t emit
\* every message of their sequence with the timestamp resolved from t.
C29_TuningTime ==
  call.op \in {"setTuningBank", "setTuningProgram"}
  => \A i \in 1..Len(CallOut) :
       CallOut[i].timestamp = Resolved(call.args.options.time)

====
